---- MODULE Spec2Model ----
(***************************************************************************)
(* Model of the wise crate: the Rc wrapper around CoreFoundation           *)
(* reference-counted objects (src/src/lib.rs, src/src/memory.rs) and the   *)
(* functions that use it.                                                  *)
(*                                                                         *)
(* The external object system is a heap of allocations, each with a retain *)
(* count.  CFRetain / CFRelease / CFGetRetainCount are the only primitives *)
(* the crate uses on it.  A count unit is held either by a live Rc, by the *)
(* caller as a not yet wrapped owned raw reference (owned), or by some     *)
(* other owner such as an NSArray holding its elements (ext).              *)
(***************************************************************************)
EXTENDS Integers, Sequences, FiniteSets, TLC

\* ---------------------------------------------------------------- bounds
NumAlloc == 2      \* allocations the external system can hand out
MaxRc    == 3      \* Rc instances ever constructed in one behaviour
MaxExt   == 1      \* count units other owners hold on one allocation
MaxOwned == 2      \* count units the caller owns, unwrapped, when it takes another

Null   == 0
Alloc  == 1..NumAlloc
Ptr    == {Null} \cup Alloc
Handle == 1..MaxRc

VARIABLES
    count,     \* [Alloc -> Nat]   retain count kept by the external system
    status,    \* [Alloc -> {"free","live","dead"}]  dead = deallocated
    elems,     \* [Alloc -> Seq(Ptr)]  references an allocation holds itself
    owned,     \* [Alloc -> Nat]   units the caller owns as a raw reference
    ext,       \* [Alloc -> Nat]   units held by other owners
    ub,        \* a CF primitive was applied to null or to a dead allocation
    calls,     \* the CFRetain/CFRelease calls of the last operation, in order
    rc,        \* [Handle -> Ptr]  field 0 of each Rc
    hstate,    \* [Handle -> {"unused","live","dropped"}]
    origin,    \* [Handle -> "none", or how the Rc was made: "owned" (new_mut,
               \*  new_const, into_rc), "as_rc", "clone"]
    released,  \* [Handle -> Nat]  CFRelease calls issued by this Rc
    last,      \* the last operation, its argument, result and prior count
    \* running_apps_with_bundle_id: position and locals
    pc,
    bundle_id_nsstring,   \* Rc of the identifier string (0: not bound)
    apps_nsarray,         \* Rc of the registry's array (0: not bound)
    n,                    \* local `count`
    i,                    \* loop index
    running_apps,         \* Vec<Rc<id>>
    result,               \* what the function returned
    trace,                \* foreign calls of the invocation, in order
    \* has_accessibility_permissions: position and locals
    ppc,
    options,              \* Rc of the options dictionary (0: not bound)
    is_trusted,           \* what the trust query answered
    presult,              \* what the function returned
    ptrace,               \* foreign calls of the invocation, in order
    \* main: position and what it has printed
    mpc,
    apps,                 \* the handles main has not iterated over yet
    out,
    \* as_rc taken statement by statement: position, *self, local `rc`
    as_pc,
    as_self,
    as_local,
    \* which thread holds each Rc (0: no thread)
    owner,
    \* acquisitions made against the documented contract, per allocation:
    \* into_rc on a borrowed reference, as_rc on an owned one
    undercount,
    overcount

rvars == <<count, status, elems, owned, ext, ub, calls,
           rc, hstate, origin, released, last>>
avars == <<pc, bundle_id_nsstring, apps_nsarray, n, i, running_apps,
           result, trace>>
xvars == <<ppc, options, is_trusted, presult, ptrace, mpc, apps, out,
           as_pc, as_self, as_local, owner, undercount, overcount>>
vars == <<count, status, elems, owned, ext, ub, calls,
          rc, hstate, origin, released, last,
          pc, bundle_id_nsstring, apps_nsarray, n, i, running_apps,
          result, trace,
          ppc, options, is_trusted, presult, ptrace, mpc, apps, out,
          as_pc, as_self, as_local, owner, undercount, overcount>>

\* The whole machine as one value, threaded through the operations below.
M == [count |-> count, status |-> status, elems |-> elems, owned |-> owned,
      ext |-> ext, ub |-> ub, log |-> <<>>,
      rc |-> rc, hstate |-> hstate, origin |-> origin, released |-> released]

Commit(m) ==
    /\ count' = m.count /\ status' = m.status /\ elems' = m.elems
    /\ owned' = m.owned /\ ext' = m.ext /\ ub' = m.ub /\ calls' = m.log
    /\ rc' = m.rc /\ hstate' = m.hstate /\ origin' = m.origin
    /\ released' = m.released

\* ------------------------------------------------- the external system
IsLive(m, p) == IF p = Null THEN FALSE ELSE m.status[p] = "live"

Occurrences(s, e) == Cardinality({k \in DOMAIN s : s[k] = e})

Max0(x) == IF x < 0 THEN 0 ELSE x

\* p's count has reached zero: the system frees it, and the references it
\* holds itself (the elements of an array) are released with it.
Dealloc(m, p) ==
    LET held == m.elems[p]
        cnt  == [a \in DOMAIN m.count |->
                   IF a = p THEN 0 ELSE Max0(m.count[a] - Occurrences(held, a))]
        xt   == [a \in DOMAIN m.count |->
                   IF a = p THEN m.ext[a]
                   ELSE Max0(m.ext[a] - Occurrences(held, a))]
        st   == [a \in DOMAIN m.count |->
                   IF m.status[a] = "live" /\ cnt[a] = 0 THEN "dead"
                   ELSE m.status[a]]
        over == \E a \in DOMAIN m.count :
                   /\ a # p
                   /\ Occurrences(held, a) > 0
                   /\ (m.status[a] # "live" \/ m.count[a] < Occurrences(held, a))
    IN  [m EXCEPT !.count = cnt, !.ext = xt, !.status = st,
                  !.ub = m.ub \/ over]

CFRetain(m, p) ==
    LET lg == Append(m.log, <<"retain", p>>) IN
    IF IsLive(m, p)
    THEN [m EXCEPT !.count[p] = @ + 1, !.log = lg]
    ELSE [m EXCEPT !.ub = TRUE, !.log = lg]

CFRelease(m, p) ==
    LET lg == Append(m.log, <<"release", p>>) IN
    IF IsLive(m, p)
    THEN IF m.count[p] = 1
         THEN Dealloc([m EXCEPT !.log = lg], p)
         ELSE [m EXCEPT !.count[p] = @ - 1, !.log = lg]
    ELSE [m EXCEPT !.ub = TRUE, !.log = lg]

CFGetRetainCount(m, p) ==
    IF IsLive(m, p)
    THEN [m |-> m, res |-> m.count[p]]
    ELSE [m |-> [m EXCEPT !.ub = TRUE], res |-> 0]

\* ---------------------------------------------------------------- Rc<T>
HasSlot(m) == \E h \in DOMAIN m.hstate : m.hstate[h] = "unused"

FreeSlot(m) ==
    CHOOSE h \in DOMAIN m.hstate :
        /\ m.hstate[h] = "unused"
        /\ \A g \in DOMAIN m.hstate : m.hstate[g] = "unused" => h <= g

\* Self(pointer as CFTypeRef, PhantomData)
Wrap(m, p, how) ==
    LET h == FreeSlot(m) IN
    [m   |-> [m EXCEPT !.rc[h] = p, !.hstate[h] = "live", !.origin[h] = how],
     res |-> h]

None(m) == [m |-> m, res |-> 0]

\* new_mut that takes a count of its own
new_mut_retains(m, pointer) ==
    IF pointer = Null THEN None(m)
    ELSE Wrap(CFRetain(m, pointer), pointer, "owned")

new_mut(m, pointer) ==
    IF pointer = Null THEN None(m) ELSE Wrap(m, pointer, "owned")

\* new_const without the null check
new_const_unchecked(m, pointer) == Wrap(m, pointer, "owned")

new_const(m, pointer) ==
    IF pointer = Null THEN None(m) ELSE Wrap(m, pointer, "owned")

strong_count(m, h) == CFGetRetainCount(m, m.rc[h])

\* get that hands out a retained pointer, as clone does
get_retained(m, h) == [m |-> CFRetain(m, m.rc[h]), res |-> m.rc[h]]

get(m, h) == [m |-> m, res |-> m.rc[h]]

\* clone that copies the pointer without retaining
clone_no_retain(m, h) == Wrap(m, m.rc[h], "clone")

\* clone whose retain is a separate load and store: it writes back the
\* count loaded before the previous operation, plus one
clone_lost_update(m, h) ==
    Wrap([m EXCEPT !.count[m.rc[h]] = last.pre + 1,
                   !.log = Append(m.log, <<"retain", m.rc[h]>>)],
         m.rc[h], "clone")

\* clone that retains twice
clone_retain_twice(m, h) ==
    Wrap(CFRetain(CFRetain(m, m.rc[h]), m.rc[h]), m.rc[h], "clone")

clone(m, h) ==
    LET r == CFRetain(m, m.rc[h]) IN Wrap(r, m.rc[h], "clone")

\* drop that forgets the release
drop_no_release(m, h) == [m EXCEPT !.hstate[h] = "dropped"]

\* drop that releases twice
drop_release_twice(m, h) ==
    LET r == CFRelease(CFRelease(m, m.rc[h]), m.rc[h]) IN
    [r EXCEPT !.hstate[h] = "dropped", !.released[h] = @ + 2]

drop(m, h) ==
    LET r == CFRelease(m, m.rc[h]) IN
    [r EXCEPT !.hstate[h] = "dropped", !.released[h] = @ + 1]

\* ------------------------------------------------------ ManageWithRc
\* as_rc's Rc is recorded as a shared acquisition.
Retag(r, how) ==
    IF r.res = 0 THEN r ELSE [r EXCEPT !.m.origin[r.res] = how]

\* into_rc that takes a count of its own
into_rc_retains(m, self) == new_mut_retains(m, self)

into_rc(m, self) == new_mut(m, self)

\* as_rc without its retain (what into_rc does)
as_rc_no_retain(m, self) == Retag(new_mut(m, self), "as_rc")

\* as_rc with a second retain
as_rc_retain_twice(m, self) ==
    LET r == new_mut(m, self) IN
    IF r.res = 0 THEN r
    ELSE Retag([m |-> CFRetain(CFRetain(r.m, self), self), res |-> r.res],
               "as_rc")

\* as_rc that retains before it looks at the pointer
as_rc_retain_first(m, self) ==
    LET r == new_mut(CFRetain(m, self), self) IN Retag(r, "as_rc")

as_rc(m, self) ==
    LET r == new_mut(m, self) IN
    IF r.res = 0 THEN r
    ELSE Retag([m |-> CFRetain(r.m, self), res |-> r.res], "as_rc")

\* ----------------------------------------------------------- the caller
\* The caller hands the unit it owns to the Rc it has just constructed.
HandOver(m, p) == IF p = Null THEN m ELSE [m EXCEPT !.owned[p] = @ - 1]

\* The count the external system holds for p (0 for null), read without
\* going through the crate.
CountOf(m, p) == IF p = Null THEN 0 ELSE m.count[p]

PreCount(p) == CountOf(M, p)

Op(name, arg, res, pre) == [op |-> name, arg |-> arg, res |-> res, pre |-> pre]

\* A factory of the external system returns a fresh object the caller owns.
Create(a) ==
    /\ UNCHANGED <<avars, xvars>>
    /\ status[a] = "free"
    /\ \A b \in Alloc : b < a => status[b] # "free"
    /\ count' = [count EXCEPT ![a] = 1]
    /\ status' = [status EXCEPT ![a] = "live"]
    /\ owned' = [owned EXCEPT ![a] = 1]
    /\ calls' = <<>>
    /\ last' = Op("create", a, 0, 0)
    /\ UNCHANGED <<elems, ext, ub, rc, hstate, origin, released>>

\* Another owner retains / releases a unit of its own.
ExtRetain(a) ==
    /\ UNCHANGED <<avars, xvars>>
    /\ status[a] = "live"
    /\ ext[a] < MaxExt
    /\ count' = [count EXCEPT ![a] = @ + 1]
    /\ ext' = [ext EXCEPT ![a] = @ + 1]
    /\ calls' = <<>>
    /\ last' = Op("ext_retain", a, 0, count[a])
    /\ UNCHANGED <<status, elems, owned, ub, rc, hstate, origin, released>>

\* Units the caller owns, unwrapped, over all allocations.
OwnedUnits ==
    Cardinality({x \in Alloc \X (1..MaxOwned) : x[2] <= owned[x[1]]})

\* The caller takes a further unit of its own on an object it already has
\* (a retain of its own, or a factory that hands the same object out again).
\* The owned acquisitions accept the pointer for as long as the caller owns
\* a unit of it: they test it for null only.
OwnRetain(a) ==
    /\ UNCHANGED <<avars, xvars>>
    /\ status[a] = "live"
    /\ owned[a] >= 1
    /\ owned[a] + ext[a] < MaxOwned
    /\ OwnedUnits < MaxOwned
    /\ count' = [count EXCEPT ![a] = @ + 1]
    /\ owned' = [owned EXCEPT ![a] = @ + 1]
    /\ calls' = <<>>
    /\ last' = Op("own_retain", a, 0, count[a])
    /\ UNCHANGED <<status, elems, ext, ub, rc, hstate, origin, released>>

ExtRelease(a) ==
    /\ UNCHANGED <<avars, xvars>>
    /\ status[a] = "live"
    /\ ext[a] >= 1
    /\ Commit([CFRelease([M EXCEPT !.ext[a] = @ - 1], a) EXCEPT !.log = <<>>])
    /\ last' = Op("ext_release", a, 0, count[a])

\* Owned acquisition: raw is null, or live with a unit the caller owns.
OwnedPre(p) == IF p = Null THEN TRUE ELSE status[p] = "live" /\ owned[p] >= 1

\* Shared acquisition: raw is null, or live (borrowed from some owner).
SharedPre(p) == IF p = Null THEN TRUE ELSE status[p] = "live"

CallNewMut(p) ==
    /\ UNCHANGED <<avars, xvars>>
    /\ OwnedPre(p) /\ HasSlot(M)
    /\ LET r == new_mut(M, p) IN
          /\ Commit(HandOver(r.m, p))
          /\ last' = Op("new_mut", p, r.res, PreCount(p))

CallNewConst(p) ==
    /\ UNCHANGED <<avars, xvars>>
    /\ OwnedPre(p) /\ HasSlot(M)
    /\ LET r == new_const(M, p) IN
          /\ Commit(HandOver(r.m, p))
          /\ last' = Op("new_const", p, r.res, PreCount(p))

CallIntoRc(p) ==
    /\ UNCHANGED <<avars, xvars>>
    /\ OwnedPre(p) /\ HasSlot(M)
    /\ LET r == into_rc(M, p) IN
          /\ Commit(HandOver(r.m, p))
          /\ last' = Op("into_rc", p, r.res, PreCount(p))

CallAsRc(p) ==
    /\ UNCHANGED <<avars, xvars>>
    /\ SharedPre(p) /\ HasSlot(M)
    /\ LET r == as_rc(M, p) IN
          /\ Commit(r.m)
          /\ last' = Op("as_rc", p, r.res, PreCount(p))

CallClone(h) ==
    /\ UNCHANGED <<avars, xvars>>
    /\ hstate[h] = "live" /\ HasSlot(M)
    /\ LET r == clone(M, h) IN
          /\ Commit(r.m)
          /\ last' = Op("clone", h, r.res, CountOf(M, rc[h]))

CallDrop(h) ==
    /\ UNCHANGED <<avars, xvars>>
    /\ hstate[h] = "live"
    /\ Commit(drop(M, h))
    /\ last' = Op("drop", h, 0, CountOf(M, rc[h]))

CallStrongCount(h) ==
    /\ UNCHANGED <<avars, xvars>>
    /\ hstate[h] = "live"
    /\ LET r == strong_count(M, h) IN
          /\ Commit(r.m)
          /\ last' = Op("strong_count", h, r.res, CountOf(M, rc[h]))

CallGet(h) ==
    /\ UNCHANGED <<avars, xvars>>
    /\ hstate[h] = "live"
    /\ LET r == get(M, h) IN
          /\ Commit(r.m)
          /\ last' = Op("get", h, r.res, CountOf(M, rc[h]))

NoResult == [kind |-> "none", val |-> <<>>, err |-> "none"]

\* Nothing else is running.
XInit ==
    /\ ppc = "idle"
    /\ options = 0
    /\ is_trusted = FALSE
    /\ presult = NoResult
    /\ ptrace = <<>>
    /\ mpc = "idle"
    /\ apps = <<>>
    /\ out = <<>>
    /\ as_pc = "idle"
    /\ as_self = Null
    /\ as_local = 0
    /\ owner = [h \in DOMAIN rc |-> 0]
    /\ undercount = [a \in DOMAIN count |-> 0]
    /\ overcount = [a \in DOMAIN count |-> 0]

Init ==
    /\ count = [a \in Alloc |-> 0]
    /\ status = [a \in Alloc |-> "free"]
    /\ elems = [a \in Alloc |-> <<>>]
    /\ owned = [a \in Alloc |-> 0]
    /\ ext = [a \in Alloc |-> 0]
    /\ ub = FALSE
    /\ calls = <<>>
    /\ rc = [h \in Handle |-> Null]
    /\ hstate = [h \in Handle |-> "unused"]
    /\ origin = [h \in Handle |-> "none"]
    /\ released = [h \in Handle |-> 0]
    /\ last = Op("none", 0, 0, 0)
    /\ pc = "idle"
    /\ bundle_id_nsstring = 0
    /\ apps_nsarray = 0
    /\ n = 0
    /\ i = 0
    /\ running_apps = <<>>
    /\ result = NoResult
    /\ trace = <<>>
    /\ XInit

Next ==
    \/ \E a \in Alloc : Create(a)
    \/ \E a \in Alloc : ExtRetain(a)
    \/ \E a \in Alloc : ExtRelease(a)
    \/ \E p \in Ptr : CallNewMut(p)
    \/ \E p \in Ptr : CallNewConst(p)
    \/ \E p \in Ptr : CallIntoRc(p)
    \/ \E p \in Ptr : CallAsRc(p)
    \/ \E h \in Handle : CallClone(h)
    \/ \E h \in Handle : CallDrop(h)
    \/ \E h \in Handle : CallStrongCount(h)
    \/ \E h \in Handle : CallGet(h)

Spec == Init /\ [][Next]_vars

\* The acquisitions, clone and drop with a caller that may own several units
\* of one object and wrap each of them.
NextUnits ==
    \/ \E a \in Alloc : Create(a)
    \/ \E a \in Alloc : OwnRetain(a)
    \/ \E a \in Alloc : ExtRetain(a)
    \/ \E a \in Alloc : ExtRelease(a)
    \/ \E p \in Ptr : CallNewMut(p)
    \/ \E p \in Ptr : CallNewConst(p)
    \/ \E p \in Ptr : CallIntoRc(p)
    \/ \E p \in Ptr : CallAsRc(p)
    \/ \E h \in Handle : CallClone(h)
    \/ \E h \in Handle : CallDrop(h)

SpecUnits == Init /\ [][NextUnits]_vars

\* ------------------------------------------- running_apps_with_bundle_id
NumApps == 2       \* NSRunningApplication objects the registry can return
MaxK    == 2       \* longest array the registry returns

AppAlloc  == 1..(2 + NumApps)    \* the string, the array, the applications
AppHandle == 1..(2 + MaxK)       \* their Rc's

\* Ok that turns an empty sequence into an error
Ok_nonempty(v) ==
    IF v = <<>> THEN [kind |-> "Err", val |-> <<>>, err |-> "UnexpectedNull"]
    ELSE [kind |-> "Ok", val |-> v, err |-> "none"]

Ok(v) == [kind |-> "Ok", val |-> v, err |-> "none"]
Err(e) == [kind |-> "Err", val |-> <<>>, err |-> e]

FreeAllocs(m) == {a \in DOMAIN m.status : m.status[a] = "free"}

Fresh(m) ==
    CHOOSE a \in FreeAllocs(m) : \A b \in FreeAllocs(m) : a <= b

SeqsUpTo(k, S) == UNION {[1..j -> S] : j \in 0..k}

\* NSString::alloc(nil).init_str(bundle_id): nil, or a new string the caller
\* owns.
init_str(m, ok) ==
    IF ok
    THEN LET a == Fresh(m) IN
         [m |-> [m EXCEPT !.count[a] = 1, !.status[a] = "live",
                          !.owned[a] = 1],
          res |-> a]
    ELSE [m |-> m, res |-> Null]

\* NSRunningApplication::runningApplicationsWithBundleIdentifier: nil, or a
\* new array the caller owns (others may own it too).  The array holds one
\* unit of every element; sys = 1 when the system keeps its own unit of each
\* application as well.
runningApplicationsWithBundleIdentifier(m, ok, es, sys, others) ==
    IF ok
    THEN LET a == Fresh(m) IN
         [m |-> [m EXCEPT
                   !.count = [b \in DOMAIN m.count |->
                                IF b = a THEN 1 + others
                                ELSE IF Occurrences(es, b) > 0
                                     THEN Occurrences(es, b) + sys
                                     ELSE m.count[b]],
                   !.status = [b \in DOMAIN m.count |->
                                IF b = a \/ Occurrences(es, b) > 0
                                THEN "live" ELSE m.status[b]],
                   !.owned[a] = 1,
                   !.ext = [b \in DOMAIN m.count |->
                                IF b = a THEN others
                                ELSE IF Occurrences(es, b) > 0
                                     THEN Occurrences(es, b) + sys
                                     ELSE m.ext[b]],
                   !.elems[a] = es],
          res |-> a]
    ELSE [m |-> m, res |-> Null]

\* NSArray::count and NSArray::objectAtIndex
NSArray_count(m, arr) == Len(m.elems[arr])

objectAtIndex(m, arr, k) == m.elems[arr][k + 1]

\* Scope exit: the locals are dropped one after the other.
\* scope exit that drops nothing
DropAll_none(m, hs) == m

\* scope exit that drops the two named locals and forgets the vector
DropAll_locals_only(m, hs) ==
    IF Len(hs) = 0 THEN m
    ELSE IF Len(hs) = 1 THEN drop(m, hs[1])
    ELSE drop(drop(m, hs[1]), hs[2])

RECURSIVE DropAll(_, _)
DropAll(m, hs) ==
    IF hs = <<>> THEN m ELSE DropAll(drop(m, Head(hs)), Tail(hs))

StrInit(ok) ==
    /\ UNCHANGED xvars
    /\ pc = "start"
    /\ LET f  == init_str(M, ok)
           r  == into_rc(f.m, f.res)
           m1 == HandOver(r.m, f.res)
       IN /\ Commit(m1)
          /\ trace' = trace \o <<<<"init_str", f.res>>>> \o m1.log
          /\ last' = Op("into_rc", f.res, r.res, CountOf(f.m, f.res))
          /\ IF r.res = 0
             THEN /\ result' = Err("CouldNotCreateCFObject")
                  /\ pc' = "done"
                  /\ UNCHANGED bundle_id_nsstring
             ELSE /\ bundle_id_nsstring' = r.res
                  /\ pc' = "lookup"
                  /\ UNCHANGED result
    /\ UNCHANGED <<apps_nsarray, n, i, running_apps>>

Lookup(ok, es, sys, others) ==
    /\ UNCHANGED xvars
    /\ pc = "lookup"
    /\ IF ok
       THEN \A k \in DOMAIN es :
               es[k] = Null \/ es[k] \in FreeAllocs(M) \ {Fresh(M)}
       ELSE es = <<>> /\ sys = 0 /\ others = 0
    /\ LET arg == get(M, bundle_id_nsstring).res
           f   == runningApplicationsWithBundleIdentifier(M, ok, es, sys, others)
           r   == into_rc(f.m, f.res)
           m1  == HandOver(r.m, f.res)
           m2  == IF r.res = 0 THEN DropAll(m1, <<bundle_id_nsstring>>) ELSE m1
       IN /\ Commit(m2)
          /\ trace' = trace
                \o <<<<"runningApplicationsWithBundleIdentifier", arg>>>>
                \o m2.log
          /\ last' = Op("into_rc", f.res, r.res, CountOf(f.m, f.res))
          /\ IF r.res = 0
             THEN /\ result' = Err("UnexpectedNull")
                  /\ pc' = "done"
                  /\ UNCHANGED apps_nsarray
             ELSE /\ apps_nsarray' = r.res
                  /\ pc' = "count"
                  /\ UNCHANGED result
    /\ UNCHANGED <<bundle_id_nsstring, n, i, running_apps>>

Count ==
    /\ UNCHANGED xvars
    /\ pc = "count"
    /\ LET arr == get(M, apps_nsarray).res IN
          /\ n' = NSArray_count(M, arr)
          /\ trace' = Append(trace, <<"count", arr>>)
          /\ last' = Op("count", arr, NSArray_count(M, arr), 0)
    /\ running_apps' = <<>>
    /\ i' = 0
    /\ pc' = "loop"
    /\ Commit(M)
    /\ UNCHANGED <<bundle_id_nsstring, apps_nsarray, result>>

LoopIter ==
    /\ UNCHANGED xvars
    /\ pc = "loop"
    /\ i < n
    /\ LET arr == get(M, apps_nsarray).res
           p   == objectAtIndex(M, arr, i)
           r   == as_rc(M, p)
           m2  == IF r.res = 0
                  THEN DropAll(r.m, <<apps_nsarray, bundle_id_nsstring>>
                                    \o running_apps)
                  ELSE r.m
       IN /\ Commit(m2)
          /\ trace' = Append(trace, <<"objectAtIndex", i>>) \o m2.log
          /\ last' = Op("as_rc", p, r.res, CountOf(M, p))
          /\ IF r.res = 0
             THEN /\ result' = Err("UnexpectedNull")
                  /\ pc' = "done"
                  /\ UNCHANGED <<running_apps, i>>
             ELSE /\ running_apps' = Append(running_apps, r.res)
                  /\ i' = i + 1
                  /\ UNCHANGED <<result, pc>>
    /\ UNCHANGED <<bundle_id_nsstring, apps_nsarray, n>>

Return ==
    /\ UNCHANGED xvars
    /\ pc = "loop"
    /\ i >= n
    /\ LET m2 == DropAll(M, <<apps_nsarray, bundle_id_nsstring>>) IN
          /\ Commit(m2)
          /\ trace' = trace \o m2.log
    /\ result' = Ok(running_apps)
    /\ pc' = "done"
    /\ last' = Op("return", 0, 0, 0)
    /\ UNCHANGED <<bundle_id_nsstring, apps_nsarray, n, i, running_apps>>

Returned == {result.val[k] : k \in DOMAIN result.val}

\* The caller reads and drops the handles it was given.
ReadCount(h) == pc = "done" /\ CallStrongCount(h)

ReadRaw(h) == pc = "done" /\ CallGet(h)

DropReturned(h) == pc = "done" /\ CallDrop(h)

InitApps ==
    /\ count = [a \in AppAlloc |-> 0]
    /\ status = [a \in AppAlloc |-> "free"]
    /\ elems = [a \in AppAlloc |-> <<>>]
    /\ owned = [a \in AppAlloc |-> 0]
    /\ ext = [a \in AppAlloc |-> 0]
    /\ ub = FALSE
    /\ calls = <<>>
    /\ rc = [h \in AppHandle |-> Null]
    /\ hstate = [h \in AppHandle |-> "unused"]
    /\ origin = [h \in AppHandle |-> "none"]
    /\ released = [h \in AppHandle |-> 0]
    /\ last = Op("none", 0, 0, 0)
    /\ pc = "start"
    /\ bundle_id_nsstring = 0
    /\ apps_nsarray = 0
    /\ n = 0
    /\ i = 0
    /\ running_apps = <<>>
    /\ result = NoResult
    /\ trace = <<>>
    /\ XInit

NextApps ==
    \/ \E ok \in BOOLEAN : StrInit(ok)
    \/ \E ok \in BOOLEAN, sys \in 0..1, others \in 0..1 :
          \E es \in SeqsUpTo(MaxK, {Null} \cup AppAlloc) :
             Lookup(ok, es, sys, others)
    \/ Count
    \/ LoopIter
    \/ Return
    \/ \E h \in Returned : ReadCount(h)
    \/ \E h \in Returned : ReadRaw(h)
    \/ \E h \in Returned : DropReturned(h)

SpecApps == InitApps /\ [][NextApps]_vars

\* --------------------------------------------- one handle and its clones
MaxClones == 4     \* clones made of the one handle

CloneHandle == 1..(MaxClones + 1)

\* One Rc wraps an allocation of count 1 that nobody else owns.
InitClones ==
    /\ count = [a \in {1} |-> 1]
    /\ status = [a \in {1} |-> "live"]
    /\ elems = [a \in {1} |-> <<>>]
    /\ owned = [a \in {1} |-> 0]
    /\ ext = [a \in {1} |-> 0]
    /\ ub = FALSE
    /\ calls = <<>>
    /\ rc = [h \in CloneHandle |-> IF h = 1 THEN 1 ELSE Null]
    /\ hstate = [h \in CloneHandle |-> IF h = 1 THEN "live" ELSE "unused"]
    /\ origin = [h \in CloneHandle |-> IF h = 1 THEN "owned" ELSE "none"]
    /\ released = [h \in CloneHandle |-> 0]
    /\ last = Op("into_rc", 1, 1, 1)
    /\ pc = "idle"
    /\ bundle_id_nsstring = 0
    /\ apps_nsarray = 0
    /\ n = 0
    /\ i = 0
    /\ running_apps = <<>>
    /\ result = NoResult
    /\ trace = <<>>
    /\ XInit

NextClones ==
    \/ \E h \in CloneHandle : CallClone(h)
    \/ \E h \in CloneHandle : CallDrop(h)
    \/ \E h \in CloneHandle : CallStrongCount(h)
    \/ \E h \in CloneHandle : CallGet(h)

SpecClones == InitClones /\ [][NextClones]_vars

\* ----------------------------------------- has_accessibility_permissions
\* CFDictionaryCreate with null callbacks: nil, or a new dictionary the
\* caller owns; it retains neither its key nor its value.
CFDictionaryCreate(m, ok) ==
    IF ok
    THEN LET a == Fresh(m) IN
         [m |-> [m EXCEPT !.count[a] = 1, !.status[a] = "live",
                          !.owned[a] = 1],
          res |-> a]
    ELSE [m |-> m, res |-> Null]

\* AXIsProcessTrustedWithOptions reads the dictionary and answers b.
AXIsProcessTrustedWithOptions(m, p, b) ==
    IF IsLive(m, p)
    THEN [m |-> m, res |-> b]
    ELSE [m |-> [m EXCEPT !.ub = TRUE], res |-> b]

\* the query made on a dictionary whose Rc has already been dropped
trust_query_after_drop(m, opt, b) ==
    AXIsProcessTrustedWithOptions(drop(m, opt), get(m, opt).res, b)

\* AXIsProcessTrustedWithOptions(options.get())
trust_query(m, opt, b) ==
    AXIsProcessTrustedWithOptions(m, get(m, opt).res, b)

PermCreate(ok) ==
    /\ ppc = "start"
    /\ LET f  == CFDictionaryCreate(M, ok)
           r  == new_const(f.m, f.res)
           m1 == HandOver(r.m, f.res)
       IN /\ Commit(m1)
          /\ ptrace' = ptrace \o <<<<"CFDictionaryCreate", f.res>>>> \o m1.log
          /\ last' = Op("new_const", f.res, r.res, CountOf(f.m, f.res))
          /\ IF r.res = 0
             THEN /\ presult' = Err("CouldNotCreateCFObject")
                  /\ ppc' = "done"
                  /\ UNCHANGED options
             ELSE /\ options' = r.res
                  /\ ppc' = "created"
                  /\ UNCHANGED presult
    /\ UNCHANGED <<is_trusted, mpc, apps, out, as_pc, as_self, as_local,
                   owner, undercount, overcount>>
    /\ UNCHANGED avars

PermQuery(b) ==
    /\ ppc = "created"
    /\ LET q == trust_query(M, options, b) IN
          /\ Commit(q.m)
          /\ is_trusted' = q.res
          /\ ptrace' = ptrace
                \o <<<<"AXIsProcessTrustedWithOptions", get(M, options).res>>,
                     <<"answer", b>>>>
                \o q.m.log
          /\ last' = Op("trust_query", options, 0, CountOf(M, rc[options]))
    /\ ppc' = "queried"
    /\ UNCHANGED <<options, presult, mpc, apps, out, as_pc, as_self, as_local,
                   owner, undercount, overcount>>
    /\ UNCHANGED avars

PermReturn ==
    /\ ppc = "queried"
    /\ LET m2 == DropAll(M, <<options>>) IN
          /\ Commit(m2)
          /\ ptrace' = ptrace \o m2.log
    /\ presult' = Ok(is_trusted)
    /\ ppc' = "done"
    /\ last' = Op("return", 0, 0, 0)
    /\ UNCHANGED <<options, is_trusted, mpc, apps, out, as_pc, as_self,
                   as_local, owner, undercount, overcount>>
    /\ UNCHANGED avars

\* ------------------------------------------------------------------ main
\* the test of main without its negation's operand: any Ok passes
permitted_any(r) == r.kind = "Ok"

\* has_accessibility_permissions()? is true
permitted(r) == r.kind = "Ok" /\ r.val = TRUE

Report(e) == <<"error", e>>

\* if !has_accessibility_permissions()? { whatever!(..) }, then the call
\* of running_apps_with_bundle_id
MainAfterPerm ==
    /\ mpc = "perm"
    /\ ppc = "done"
    /\ IF permitted(presult)
       THEN /\ mpc' = "apps"
            /\ pc' = "start"
            /\ UNCHANGED out
       ELSE /\ mpc' = "failed"
            /\ out' = Append(out, Report(IF presult.kind = "Err"
                                         THEN presult.err ELSE "Whatever"))
            /\ UNCHANGED pc
    /\ UNCHANGED rvars
    /\ UNCHANGED <<bundle_id_nsstring, apps_nsarray, n, i, running_apps,
                   result, trace>>
    /\ UNCHANGED <<ppc, options, is_trusted, presult, ptrace, apps,
                   as_pc, as_self, as_local, owner, undercount, overcount>>

\* let apps = running_apps_with_bundle_id(..)?; println!("{} apps", ..)
MainAfterApps ==
    /\ mpc = "apps"
    /\ pc = "done"
    /\ IF result.kind = "Ok"
       THEN /\ mpc' = "loop"
            /\ apps' = result.val
            /\ out' = Append(out, <<"apps", Len(result.val)>>)
       ELSE /\ mpc' = "failed"
            /\ out' = Append(out, Report(result.err))
            /\ UNCHANGED apps
    /\ UNCHANGED rvars
    /\ UNCHANGED avars
    /\ UNCHANGED <<ppc, options, is_trusted, presult, ptrace,
                   as_pc, as_self, as_local, owner, undercount, overcount>>

\* app.get().processIdentifier(): reads the application object
processIdentifier(m, p) ==
    IF IsLive(m, p)
    THEN [m |-> m, res |-> p]
    ELSE [m |-> [m EXCEPT !.ub = TRUE], res |-> p]

\* one turn of `for app in apps`: two lines printed, then app is dropped
MainIter ==
    /\ mpc = "loop"
    /\ apps # <<>>
    /\ LET app == Head(apps)
           sc  == strong_count(M, app)
           g   == get(sc.m, app)
           pid == processIdentifier(g.m, g.res)
           m2  == drop(pid.m, app)
       IN /\ Commit(m2)
          /\ out' = out \o <<<<"retain count", sc.res>>, <<"pid", pid.res>>>>
          /\ last' = Op("iter", app, sc.res, CountOf(M, rc[app]))
    /\ apps' = Tail(apps)
    /\ UNCHANGED avars
    /\ UNCHANGED <<ppc, options, is_trusted, presult, ptrace, mpc,
                   as_pc, as_self, as_local, owner, undercount, overcount>>

MainEnd ==
    /\ mpc = "loop"
    /\ apps = <<>>
    /\ mpc' = "ok"
    /\ UNCHANGED rvars
    /\ UNCHANGED avars
    /\ UNCHANGED <<ppc, options, is_trusted, presult, ptrace, apps, out,
                   as_pc, as_self, as_local, owner, undercount, overcount>>

MainAlloc  == 1..(3 + NumApps)   \* dictionary, string, array, applications
MainHandle == 1..(3 + MaxK)

InitMain ==
    /\ count = [a \in MainAlloc |-> 0]
    /\ status = [a \in MainAlloc |-> "free"]
    /\ elems = [a \in MainAlloc |-> <<>>]
    /\ owned = [a \in MainAlloc |-> 0]
    /\ ext = [a \in MainAlloc |-> 0]
    /\ ub = FALSE
    /\ calls = <<>>
    /\ rc = [h \in MainHandle |-> Null]
    /\ hstate = [h \in MainHandle |-> "unused"]
    /\ origin = [h \in MainHandle |-> "none"]
    /\ released = [h \in MainHandle |-> 0]
    /\ last = Op("none", 0, 0, 0)
    /\ pc = "idle"
    /\ bundle_id_nsstring = 0
    /\ apps_nsarray = 0
    /\ n = 0
    /\ i = 0
    /\ running_apps = <<>>
    /\ result = NoResult
    /\ trace = <<>>
    /\ ppc = "start"
    /\ options = 0
    /\ is_trusted = FALSE
    /\ presult = NoResult
    /\ ptrace = <<>>
    /\ mpc = "perm"
    /\ apps = <<>>
    /\ out = <<>>
    /\ as_pc = "idle"
    /\ as_self = Null
    /\ as_local = 0
    /\ owner = [h \in MainHandle |-> 0]
    /\ undercount = [a \in MainAlloc |-> 0]
    /\ overcount = [a \in MainAlloc |-> 0]

NextMain ==
    \/ \E ok \in BOOLEAN : PermCreate(ok)
    \/ \E b \in BOOLEAN : PermQuery(b)
    \/ PermReturn
    \/ MainAfterPerm
    \/ \E ok \in BOOLEAN : StrInit(ok)
    \/ \E ok \in BOOLEAN, sys \in 0..1, others \in 0..1 :
          \E es \in SeqsUpTo(MaxK, {Null} \cup MainAlloc) :
             Lookup(ok, es, sys, others)
    \/ Count
    \/ LoopIter
    \/ Return
    \/ MainAfterApps
    \/ MainIter
    \/ MainEnd

SpecMain == InitMain /\ [][NextMain]_vars

\* ------------------------------------------ as_rc, statement by statement
\* let rc = unsafe { Rc::new_mut(*self) }?;
as_rc_wrap(m, self) == new_mut(m, self)

\* the second statement left out
as_rc_retain_skipped(m, self) == m

\* unsafe { CFRetain(*self as CFTypeRef) };
as_rc_retain(m, self) == CFRetain(m, self)

AsRcWrap(p) ==
    /\ as_pc = "idle"
    /\ SharedPre(p) /\ HasSlot(M)
    /\ LET r == as_rc_wrap(M, p) IN
          /\ Commit(r.m)
          /\ IF r.res = 0
             THEN /\ last' = Op("as_rc", p, 0, PreCount(p))
                  /\ UNCHANGED <<as_pc, as_self, as_local>>
             ELSE /\ last' = Op("as_rc_wrap", p, r.res, PreCount(p))
                  /\ as_pc' = "wrapped"
                  /\ as_self' = p
                  /\ as_local' = r.res
    /\ UNCHANGED avars
    /\ UNCHANGED <<ppc, options, is_trusted, presult, ptrace, mpc, apps, out,
                   owner, undercount, overcount>>

AsRcRetain ==
    /\ as_pc = "wrapped"
    /\ Commit(as_rc_retain(M, as_self))
    /\ last' = Op("as_rc_retain", as_self, as_local, PreCount(as_self))
    /\ as_pc' = "retained"
    /\ UNCHANGED avars
    /\ UNCHANGED <<ppc, options, is_trusted, presult, ptrace, mpc, apps, out,
                   as_self, as_local, owner, undercount, overcount>>

\* Some(rc)
AsRcReturn ==
    /\ as_pc = "retained"
    /\ Commit(Retag([m |-> M, res |-> as_local], "as_rc").m)
    /\ last' = Op("as_rc", as_self, as_local, last.pre)
    /\ as_pc' = "idle"
    /\ UNCHANGED avars
    /\ UNCHANGED <<ppc, options, is_trusted, presult, ptrace, mpc, apps, out,
                   as_self, as_local, owner, undercount, overcount>>

\* One thread: nothing else runs while as_rc is between its statements.
NextAsRc ==
    \/ \E p \in Ptr : AsRcWrap(p)
    \/ AsRcRetain
    \/ AsRcReturn
    \/ as_pc = "idle" /\ \E a \in Alloc : Create(a)
    \/ as_pc = "idle" /\ \E a \in Alloc : ExtRetain(a)
    \/ as_pc = "idle" /\ \E a \in Alloc : ExtRelease(a)
    \/ as_pc = "idle" /\ \E p \in Ptr : CallIntoRc(p)
    \/ as_pc = "idle" /\ \E h \in Handle : CallClone(h)
    \/ as_pc = "idle" /\ \E h \in Handle : CallDrop(h)

SpecAsRc == Init /\ [][NextAsRc]_vars

\* ------------------------------- acquisitions against the stated contract
\* Another owner creates an object and keeps the only unit of it.
Lend(a) ==
    /\ status[a] = "free"
    /\ \A b \in Alloc : b < a => status[b] # "free"
    /\ count' = [count EXCEPT ![a] = 1]
    /\ status' = [status EXCEPT ![a] = "live"]
    /\ ext' = [ext EXCEPT ![a] = 1]
    /\ calls' = <<>>
    /\ last' = Op("lend", a, 0, 0)
    /\ UNCHANGED <<elems, owned, ub, rc, hstate, origin, released>>
    /\ UNCHANGED <<avars, xvars>>

\* into_rc on a reference the caller only borrows: no unit changes hands.
IntoRcBorrowed(p) ==
    /\ status[p] = "live"
    /\ owned[p] = 0
    /\ HasSlot(M)
    /\ LET r == into_rc(M, p) IN
          /\ Commit(r.m)
          /\ last' = Op("into_rc", p, r.res, PreCount(p))
    /\ undercount' = [undercount EXCEPT ![p] = @ + 1]
    /\ UNCHANGED avars
    /\ UNCHANGED <<ppc, options, is_trusted, presult, ptrace, mpc, apps, out,
                   as_pc, as_self, as_local, owner, overcount>>

\* as_rc on a fresh reference the caller owns; the caller then lets go of
\* the raw reference as it would after into_rc.
AsRcOwned(p) ==
    /\ status[p] = "live"
    /\ owned[p] >= 1
    /\ HasSlot(M)
    /\ LET r == as_rc(M, p) IN
          /\ Commit(HandOver(r.m, p))
          /\ last' = Op("as_rc", p, r.res, PreCount(p))
    /\ overcount' = [overcount EXCEPT ![p] = @ + 1]
    /\ UNCHANGED avars
    /\ UNCHANGED <<ppc, options, is_trusted, presult, ptrace, mpc, apps, out,
                   as_pc, as_self, as_local, owner, undercount>>

\* Another owner releases the unit it holds, whatever has become of the
\* object meanwhile.
OwnerRelease(a) ==
    /\ ext[a] >= 1
    /\ Commit([CFRelease([M EXCEPT !.ext[a] = @ - 1], a) EXCEPT !.log = <<>>])
    /\ last' = Op("owner_release", a, 0, count[a])
    /\ UNCHANGED <<avars, xvars>>

\* A CF primitive has been applied to a deallocated object: the build may do
\* anything; the object is left with any count, allocated or not.
Undefined(a, c, st) ==
    /\ ub
    /\ last.op # "undefined"
    /\ count' = [count EXCEPT ![a] = c]
    /\ status' = [status EXCEPT ![a] = st]
    /\ last' = Op("undefined", a, 0, count[a])
    /\ UNCHANGED <<elems, owned, ext, ub, calls, rc, hstate, origin, released>>
    /\ UNCHANGED <<avars, xvars>>

NextMisuse ==
    \/ ~ub /\ \E a \in Alloc : Lend(a)
    \/ ~ub /\ \E a \in Alloc : Create(a)
    \/ ~ub /\ \E a \in Alloc : OwnerRelease(a)
    \/ ~ub /\ \E p \in Alloc : IntoRcBorrowed(p)
    \/ ~ub /\ \E p \in Alloc : AsRcOwned(p)
    \/ ~ub /\ \E p \in Ptr : CallIntoRc(p)
    \/ ~ub /\ \E h \in Handle : CallClone(h)
    \/ ~ub /\ \E h \in Handle : CallDrop(h)
    \/ ~ub /\ \E h \in Handle : CallStrongCount(h)
    \/ \E a \in Alloc, c \in 0..2, st \in {"live", "dead"} : Undefined(a, c, st)

SpecMisuse == Init /\ [][NextMisuse]_vars

\* ---------------------------------------------------------------- threads
\* Every operation of Rc touches shared state in one atomic CFRetain,
\* CFRelease or CFGetRetainCount; the Rc value itself belongs to one thread
\* (Rc holds a raw pointer, so it is neither Send nor Sync).
\* An operation is therefore one step, and threads interleave their steps.
NumThreads      == 2
MaxThreadClones == 2     \* clones made by all threads together

Thread       == 1..NumThreads
ThreadHandle == 1..(NumThreads + MaxThreadClones)

ThreadClone(t, h) ==
    /\ owner[h] = t
    /\ hstate[h] = "live" /\ HasSlot(M)
    /\ LET r == clone(M, h) IN
          /\ Commit(r.m)
          /\ owner' = [owner EXCEPT ![r.res] = t]
          /\ last' = Op("clone", h, r.res, CountOf(M, rc[h]))
    /\ UNCHANGED avars
    /\ UNCHANGED <<ppc, options, is_trusted, presult, ptrace, mpc, apps, out,
                   as_pc, as_self, as_local, undercount, overcount>>

ThreadDrop(t, h) ==
    /\ owner[h] = t
    /\ hstate[h] = "live"
    /\ Commit(drop(M, h))
    /\ owner' = [owner EXCEPT ![h] = 0]
    /\ last' = Op("drop", h, 0, CountOf(M, rc[h]))
    /\ UNCHANGED avars
    /\ UNCHANGED <<ppc, options, is_trusted, presult, ptrace, mpc, apps, out,
                   as_pc, as_self, as_local, undercount, overcount>>

ThreadStrongCount(t, h) ==
    /\ owner[h] = t
    /\ hstate[h] = "live"
    /\ LET r == strong_count(M, h) IN
          /\ Commit(r.m)
          /\ last' = Op("strong_count", h, r.res, CountOf(M, rc[h]))
    /\ UNCHANGED <<avars, xvars>>

\* One allocation; every thread holds an Rc of its own on it; somebody else
\* may own a unit too.
InitThreads ==
    /\ \E x \in 0..1 :
          /\ count = [a \in {1} |-> NumThreads + x]
          /\ ext = [a \in {1} |-> x]
    /\ status = [a \in {1} |-> "live"]
    /\ elems = [a \in {1} |-> <<>>]
    /\ owned = [a \in {1} |-> 0]
    /\ ub = FALSE
    /\ calls = <<>>
    /\ rc = [h \in ThreadHandle |-> IF h \in Thread THEN 1 ELSE Null]
    /\ hstate = [h \in ThreadHandle |->
                    IF h \in Thread THEN "live" ELSE "unused"]
    /\ origin = [h \in ThreadHandle |->
                    IF h = 1 THEN "owned"
                    ELSE IF h \in Thread THEN "clone" ELSE "none"]
    /\ released = [h \in ThreadHandle |-> 0]
    /\ last = Op("none", 0, 0, 0)
    /\ pc = "idle"
    /\ bundle_id_nsstring = 0
    /\ apps_nsarray = 0
    /\ n = 0
    /\ i = 0
    /\ running_apps = <<>>
    /\ result = NoResult
    /\ trace = <<>>
    /\ ppc = "idle"
    /\ options = 0
    /\ is_trusted = FALSE
    /\ presult = NoResult
    /\ ptrace = <<>>
    /\ mpc = "idle"
    /\ apps = <<>>
    /\ out = <<>>
    /\ as_pc = "idle"
    /\ as_self = Null
    /\ as_local = 0
    /\ owner = [h \in ThreadHandle |-> IF h \in Thread THEN h ELSE 0]
    /\ undercount = [a \in {1} |-> 0]
    /\ overcount = [a \in {1} |-> 0]

NextThreads ==
    \/ \E t \in Thread, h \in ThreadHandle : ThreadClone(t, h)
    \/ \E t \in Thread, h \in ThreadHandle : ThreadDrop(t, h)
    \/ \E t \in Thread, h \in ThreadHandle : ThreadStrongCount(t, h)

SpecThreads == InitThreads /\ [][NextThreads]_vars

\* ================================================================ claims
Handles == DOMAIN rc
Allocs  == DOMAIN count

LiveRcs == {h \in Handles : hstate[h] = "live"}
Dropped == {h \in Handles : hstate[h] = "dropped"}
Clones  == {h \in Handles : origin[h] = "clone"}
LiveOn(a) == {h \in LiveRcs : rc[h] = a}
EverOn(a) == {h \in Handles : hstate[h] # "unused" /\ rc[h] = a}

OwnedOps    == {"new_mut", "new_const", "into_rc"}
SharingWays == {"clone", "as_rc"}

HasCall(log, kind) == \E k \in DOMAIN log : log[k][1] = kind

\* C1: every live Rc holds a non-null pointer to an allocation that has not
\* been deallocated and whose count is at least 1.
C1_LiveRcValid ==
    \A h \in LiveRcs :
        IF rc[h] = Null THEN FALSE
        ELSE status[rc[h]] = "live" /\ count[rc[h]] >= 1

\* a live Rc whose allocation has already seen another Rc dropped
C1_Witness ==
    \E h \in LiveRcs : \E g \in Dropped : rc[g] = rc[h] /\ count[rc[h]] = 1

\* C2 as stated: the count of every allocation is the number of units
\* owned outside the handles plus the number of live Rc's on it, and of two
\* live Rc's on one allocation at least one was made by clone or as_rc.
C2_Original ==
    /\ \A a \in Allocs :
          count[a] = owned[a] + ext[a] + Cardinality(LiveOn(a))
    /\ \A h \in LiveRcs : \A g \in LiveRcs :
          (h # g /\ rc[h] = rc[g]) =>
              (origin[h] \in SharingWays \/ origin[g] \in SharingWays)

\* C2: the count of every allocation is the number of units owned outside
\* the handles plus the number of live Rc's on it.  An Rc comes to refer to
\* an allocation only by clone or as_rc, which add a unit to the count, or
\* by an owned acquisition, which takes over one unit the caller owned and
\* leaves the count as it was; nothing else changes what an Rc refers to.
C2_CountAccountingPerUnit ==
    /\ [](\A a \in Allocs :
            count[a] = owned[a] + ext[a] + Cardinality(LiveOn(a)))
    /\ [][\A h \in Handles :
            /\ (hstate[h] = "live" /\ hstate'[h] = "live") => rc'[h] = rc[h]
            /\ (hstate[h] # "live" /\ hstate'[h] = "live") =>
                  /\ rc'[h] \in Allocs
                  /\ \A g \in Handles \ {h} :
                        hstate'[g] = "live" <=> hstate[g] = "live"
                  /\ \/ /\ origin'[h] \in SharingWays
                        /\ last'.op \in SharingWays
                        /\ count'[rc'[h]] = count[rc'[h]] + 1
                        /\ owned'[rc'[h]] = owned[rc'[h]]
                     \/ /\ origin'[h] = "owned"
                        /\ last'.op \in OwnedOps
                        /\ owned[rc'[h]] >= 1
                        /\ owned'[rc'[h]] = owned[rc'[h]] - 1
                        /\ count'[rc'[h]] = count[rc'[h]]]_vars

\* two live Rc's on one allocation, both from owned acquisitions of units
\* the caller owned, next to an outside owner
C2_Witness ==
    \E a \in Allocs :
        /\ ext[a] >= 1
        /\ \E h \in LiveOn(a) : \E g \in LiveOn(a) :
              h # g /\ origin[h] = "owned" /\ origin[g] = "owned"
        /\ count[a] = 2 + ext[a] + owned[a]

\* C3: right after h.clone(), h and the clone both report the old count
\* plus one and hold the same pointer; dropping the clone next gives h its
\* old count back.
C3_CloneAddsOne ==
    /\ [](last.op = "clone" =>
            /\ rc[last.res] = rc[last.arg]
            /\ strong_count(M, last.arg).res = last.pre + 1
            /\ strong_count(M, last.res).res = last.pre + 1)
    /\ [][\A src \in Handles :
            (/\ last.op = "clone" /\ last.arg = src
             /\ last'.op = "drop" /\ last'.arg = last.res) =>
                /\ hstate'[src] = "live"
                /\ (strong_count(M, src).res)' = last.pre]_vars

\* a clone was taken of a handle with count 2 and has been dropped again
C3_Witness ==
    /\ last.op = "drop"
    /\ origin[last.arg] = "clone"
    /\ last.pre = 3
    /\ \E h \in LiveRcs : rc[h] = rc[last.arg] /\ count[rc[h]] = 2

\* C4: one Rc on an allocation of count 1, N clones, N of the N+1 handles
\* dropped in any order: one Rc is live, it reports 1, the allocation lives.
C4_OneSurvivor ==
    (Cardinality(Clones) >= 1 /\ Cardinality(Dropped) = Cardinality(Clones)) =>
        /\ Cardinality(LiveRcs) = 1
        /\ \A h \in LiveRcs :
              /\ rc[h] = 1
              /\ status[1] = "live"
              /\ strong_count(M, h).res = 1
              /\ ~strong_count(M, h).m.ub

\* three clones made, three handles dropped, the original among them
C4_Witness ==
    /\ Cardinality(Clones) >= 3
    /\ Cardinality(Dropped) = Cardinality(Clones)
    /\ hstate[1] = "dropped"
    /\ \E h \in LiveRcs : origin[h] = "clone"

\* C5: an Rc has issued one release if it has been dropped and none
\* otherwise; drop is the only Rc operation that releases; an allocation is
\* deallocated by exactly the release that finds its count at 1, and when
\* only handles own it that is the drop of the last Rc on it.
C5_OneReleasePerRc ==
    /\ [](\A h \in Handles :
             released[h] = IF hstate[h] = "dropped" THEN 1 ELSE 0)
    /\ [](IF last.op = "drop"
          THEN calls = <<<<"release", rc[last.arg]>>>>
          ELSE last.op \in OwnedOps \cup SharingWays \cup {"strong_count", "get"}
                  => ~HasCall(calls, "release"))
    /\ [][\A a \in Allocs :
            LET releasedNow ==
                  \/ last'.op = "drop" /\ rc[last'.arg] = a
                  \/ last'.op = "ext_release" /\ last'.arg = a
            IN /\ (status[a] = "live" /\ status'[a] = "dead")
                     <=> (status[a] = "live" /\ count[a] = 1 /\ releasedNow)
               /\ (status[a] = "live" /\ status'[a] = "dead"
                      /\ ext[a] = 0 /\ owned[a] = 0)
                     => /\ last'.op = "drop"
                        /\ LiveOn(a) = {last'.arg}
                        /\ hstate'[last'.arg] = "dropped"]_vars

\* an allocation two Rc's owned has been deallocated by the second drop
C5_Witness ==
    /\ last.op = "drop"
    /\ status[rc[last.arg]] = "dead"
    /\ Cardinality(EverOn(rc[last.arg])) >= 2
    /\ \A h \in EverOn(rc[last.arg]) : released[h] = 1

\* C6: new_mut, new_const and into_rc return None exactly for null, call
\* neither CFRetain nor CFRelease, and leave the count as it was.
C6_OwnedAcquisition ==
    last.op \in OwnedOps =>
        /\ (last.res = 0) <=> (last.arg = Null)
        /\ calls = <<>>
        /\ ~ub
        /\ last.arg # Null =>
              /\ rc[last.res] = last.arg
              /\ hstate[last.res] = "live"
              /\ count[last.arg] = last.pre

\* owned acquisition of null, with other handles alive
C6_Witness ==
    /\ last.op \in OwnedOps
    /\ last.arg = Null
    /\ last.res = 0
    /\ LiveRcs # {}

\* C7: as_rc on a live allocation of count c returns a handle on it and
\* leaves the count at c + 1.
C7_SharedAddsOne ==
    (last.op = "as_rc" /\ last.arg # Null) =>
        /\ last.res # 0
        /\ rc[last.res] = last.arg
        /\ hstate[last.res] = "live"
        /\ count[last.arg] = last.pre + 1
        /\ calls = <<<<"retain", last.arg>>>>

\* as_rc on an allocation that already had three owners
C7_Witness ==
    /\ last.op = "as_rc"
    /\ last.arg # Null
    /\ last.pre = 3
    /\ ext[last.arg] >= 1

\* C8: as_rc on null returns None and calls neither CFRetain nor CFRelease.
C8_SharedNull ==
    (last.op = "as_rc" /\ last.arg = Null) =>
        /\ last.res = 0
        /\ calls = <<>>
        /\ ~ub

\* as_rc on null while an allocation is live
C8_Witness ==
    /\ last.op = "as_rc"
    /\ last.arg = Null
    /\ \E a \in Allocs : status[a] = "live"

\* C9: strong_count and get change nothing: no retain, no release, every
\* count and every handle as before; strong_count returns the count of the
\* handle's allocation and get its pointer.
C9_Observers ==
    [][last'.op \in {"strong_count", "get"} =>
         /\ UNCHANGED <<count, status, elems, owned, ext, ub,
                        rc, hstate, origin, released>>
         /\ calls' = <<>>
         /\ hstate[last'.arg] = "live"
         /\ last'.op = "strong_count" => last'.res = count[rc[last'.arg]]
         /\ last'.op = "get" => last'.res = rc[last'.arg]]_vars

\* strong_count read 3 from a handle
C9_Witness ==
    /\ last.op = "strong_count"
    /\ last.res = 3
    /\ Cardinality(LiveOn(rc[last.arg])) >= 2

\* C10: a non-null array of K non-null elements gives Ok with K handles, the
\* k-th on the k-th element; the array's and the string's Rc have each
\* released once; every returned handle not yet dropped is on a live
\* allocation of count >= 1.
C10_ElementsSurvive ==
    LET arr == rc[apps_nsarray] IN
    (/\ pc = "done"
     /\ apps_nsarray # 0
     /\ \A k \in DOMAIN elems[arr] : elems[arr][k] # Null) =>
        /\ result.kind = "Ok"
        /\ Len(result.val) = Len(elems[arr])
        /\ \A k \in DOMAIN result.val : rc[result.val[k]] = elems[arr][k]
        /\ \A k \in DOMAIN result.val : \A j \in DOMAIN result.val :
              k # j => result.val[k] # result.val[j]
        /\ hstate[apps_nsarray] = "dropped" /\ released[apps_nsarray] = 1
        /\ hstate[bundle_id_nsstring] = "dropped"
        /\ released[bundle_id_nsstring] = 1
        /\ \A k \in DOMAIN result.val :
              hstate[result.val[k]] = "live" =>
                 /\ status[rc[result.val[k]]] = "live"
                 /\ count[rc[result.val[k]]] >= 1

\* two handles returned, the array deallocated, and an element whose only
\* remaining unit is its handle's
C10_Witness ==
    /\ pc = "done"
    /\ result.kind = "Ok"
    /\ Len(result.val) >= 2
    /\ status[rc[apps_nsarray]] = "dead"
    /\ \E k \in DOMAIN result.val :
          hstate[result.val[k]] = "live" /\ count[rc[result.val[k]]] = 1

CallCount(tr, kind, p) ==
    Cardinality({k \in DOMAIN tr : tr[k] = <<kind, p>>})

Used == {h \in Handles : hstate[h] # "unused"}

ArrayPtr == IF apps_nsarray = 0 THEN Null ELSE rc[apps_nsarray]

StringPtr == IF bundle_id_nsstring = 0 THEN Null ELSE rc[bundle_id_nsstring]

HasNullElement ==
    IF apps_nsarray = 0 THEN FALSE
    ELSE \E k \in DOMAIN elems[ArrayPtr] : elems[ArrayPtr][k] = Null

\* C11: if the string, the array or an element is null the call returns an
\* error and no sequence; every Rc made before the failure has been dropped
\* with one release, and the call's retains and releases of every element
\* cancel, so no unit of the call remains on it.
C11_ErrorReleasesAll ==
    (pc = "done" /\ (bundle_id_nsstring = 0 \/ apps_nsarray = 0
                        \/ HasNullElement)) =>
        /\ result.kind = "Err"
        /\ result.val = <<>>
        /\ result.err = IF bundle_id_nsstring = 0
                        THEN "CouldNotCreateCFObject" ELSE "UnexpectedNull"
        /\ ~ub
        /\ \A h \in Used : hstate[h] = "dropped" /\ released[h] = 1
        /\ \A a \in Allocs :
              /\ a \notin {StringPtr, ArrayPtr} =>
                    CallCount(trace, "retain", a) = CallCount(trace, "release", a)
              /\ count[a] = owned[a] + ext[a]

\* the element at index 1 was null after one element handle had been made,
\* and the array was deallocated by the exit
C11_Witness ==
    /\ pc = "done"
    /\ result.kind = "Err"
    /\ Len(running_apps) >= 1
    /\ status[ArrayPtr] = "dead"
    /\ \E a \in Allocs : CallCount(trace, "retain", a) = 1 /\ status[a] = "live"

\* C13: an array of length 0 gives Ok with an empty sequence, no element is
\* read, nothing is retained, and the array's and the string's Rc release
\* once each.
C13_EmptyArray ==
    (pc = "done" /\ apps_nsarray # 0 /\ elems[ArrayPtr] = <<>>) =>
        /\ result.kind = "Ok"
        /\ result.val = <<>>
        /\ ~HasCall(trace, "objectAtIndex")
        /\ ~HasCall(trace, "retain")
        /\ released[apps_nsarray] = 1 /\ hstate[apps_nsarray] = "dropped"
        /\ released[bundle_id_nsstring] = 1
        /\ hstate[bundle_id_nsstring] = "dropped"
        /\ CallCount(trace, "release", ArrayPtr) = 1
        /\ CallCount(trace, "release", StringPtr) = 1

\* the call returned for an empty array that its Rc alone owned
C13_Witness ==
    /\ pc = "done"
    /\ apps_nsarray # 0
    /\ elems[ArrayPtr] = <<>>
    /\ result.kind = "Ok"
    /\ status[ArrayPtr] = "dead"

\* C14: a null registry result gives UnexpectedNull, the array is never
\* asked for its length or an element, and the string's Rc releases once.
C14_RegistryNull ==
    (pc = "done" /\ bundle_id_nsstring # 0 /\ apps_nsarray = 0) =>
        /\ result = Err("UnexpectedNull")
        /\ ~HasCall(trace, "count")
        /\ ~HasCall(trace, "objectAtIndex")
        /\ released[bundle_id_nsstring] = 1
        /\ hstate[bundle_id_nsstring] = "dropped"
        /\ trace = << <<"init_str", StringPtr>>,
                      <<"runningApplicationsWithBundleIdentifier", StringPtr>>,
                      <<"release", StringPtr>> >>

\* the registry returned null and the string has been deallocated
C14_Witness ==
    /\ pc = "done"
    /\ bundle_id_nsstring # 0
    /\ apps_nsarray = 0
    /\ result.kind = "Err"
    /\ status[StringPtr] = "dead"

\* has_accessibility_permissions has returned Ok(true)
PermGranted ==
    IF presult.kind = "Ok" THEN presult.val = TRUE ELSE FALSE

PerProcessLines == {k \in DOMAIN out : out[k][1] \in {"retain count", "pid"}}

DictPtr == IF options = 0 THEN Null ELSE rc[options]

FactoryReturnedNull ==
    ptrace # <<>> /\ ptrace[1] = <<"CFDictionaryCreate", Null>>

\* C12: when CFDictionaryCreate returns null, has_accessibility_permissions
\* returns CouldNotCreateCFObject, the trust query is never called and
\* nothing is released.
C12_FactoryFailed ==
    FactoryReturnedNull =>
        /\ ppc = "done"
        /\ presult = Err("CouldNotCreateCFObject")
        /\ options = 0
        /\ ~HasCall(ptrace, "AXIsProcessTrustedWithOptions")
        /\ ~HasCall(ptrace, "release")
        /\ ~HasCall(ptrace, "retain")
        /\ Used = {}
        /\ ~ub

\* the factory returned null and main has reported the failure
C12_Witness ==
    /\ FactoryReturnedNull
    /\ mpc = "failed"
    /\ out = <<Report("CouldNotCreateCFObject")>>

\* C15: a non-null dictionary is released exactly once, after the trust
\* query has returned; the query sees it live; the function returns the
\* query's answer.
C15_OptionsReleasedAfterQuery ==
    options # 0 =>
        /\ ~ub
        /\ ppc \in {"created", "queried"} =>
              /\ released[options] = 0
              /\ status[DictPtr] = "live"
              /\ ~HasCall(ptrace, "release")
        /\ ppc = "done" =>
              /\ released[options] = 1
              /\ hstate[options] = "dropped"
              /\ \E b \in BOOLEAN :
                    /\ ptrace = << <<"CFDictionaryCreate", DictPtr>>,
                                   <<"AXIsProcessTrustedWithOptions", DictPtr>>,
                                   <<"answer", b>>,
                                   <<"release", DictPtr>> >>
                    /\ presult = Ok(b)

\* the function has returned true and the dictionary is deallocated
C15_Witness ==
    /\ options # 0
    /\ ppc = "done"
    /\ PermGranted
    /\ status[DictPtr] = "dead"

\* C20: running_apps_with_bundle_id runs only after the permission check
\* returned Ok(true); on Ok(false) or an error main fails without calling
\* it; if the enumeration fails main fails without a per-process line.
C20_MainOrder ==
    /\ (pc # "idle" \/ trace # <<>> \/ mpc \in {"apps", "loop", "ok"}) =>
          (ppc = "done" /\ PermGranted)
    /\ (ppc = "done" /\ ~PermGranted) =>
          /\ mpc \in {"perm", "failed"}
          /\ pc = "idle" /\ trace = <<>>
    /\ (pc = "done" /\ result.kind = "Err") =>
          /\ mpc \in {"apps", "failed"}
          /\ PerProcessLines = {}
    /\ mpc \in {"loop", "ok"} => result.kind = "Ok"
    /\ mpc = "failed" =>
          /\ PerProcessLines = {}
          /\ out # <<>> /\ out[Len(out)][1] = "error"
          /\ apps = <<>>

\* the check answered false and main has failed without the enumeration
C20_Witness ==
    /\ mpc = "failed"
    /\ presult.kind = "Ok"
    /\ ~PermGranted
    /\ pc = "idle"
    /\ out = <<Report("Whatever")>>

Owners(a) == owned[a] + ext[a] + Cardinality(LiveOn(a))

\* C16 as stated: no state has an Rc made by as_rc for the borrowed
\* reference whose retain has not been performed yet.
C16_Original ==
    ~(/\ as_pc = "wrapped"
      /\ hstate[as_local] = "live"
      /\ rc[as_local] = as_self
      /\ count[as_self] < Owners(as_self))

\* C16 (amended): as_rc wraps first and retains second.  Between the two
\* statements its Rc exists one unit short, on a reference that is still
\* live; from the retain on, and whenever as_rc is not running, every live
\* Rc is accounted for, so the Rc as_rc returns has its retain behind it.
C16_RetainBeforeReturn ==
    /\ as_pc = "wrapped" =>
          /\ hstate[as_local] = "live" /\ rc[as_local] = as_self
          /\ status[as_self] = "live"
          /\ count[as_self] >= 1
          /\ count[as_self] = Owners(as_self) - 1
          /\ calls = <<>>
    /\ as_pc \in {"idle", "retained"} =>
          \A a \in Allocs : count[a] = Owners(a)
    /\ as_pc = "retained" => calls = <<<<"retain", as_self>>>>
    /\ (last.op = "as_rc" /\ last.res # 0) =>
          /\ hstate[last.res] = "live" /\ rc[last.res] = last.arg
          /\ count[last.arg] = Owners(last.arg)
    /\ ~ub

\* as_rc has returned an Rc on a reference two others own
C16_Witness ==
    /\ last.op = "as_rc"
    /\ last.res # 0
    /\ as_pc = "idle"
    /\ count[last.arg] = 3
    /\ ext[last.arg] >= 1

\* C17: into_rc on a borrowed reference under-counts.  Until a release
\* hits a deallocated object, the count of such an allocation is short of
\* its owners by one per such acquisition, so its owners can never all
\* release without one of them releasing a deallocated object; once the
\* count is 0 an owner is left with a deallocated allocation.
C17_OwnedOnBorrowedUnderCounts ==
    ~ub =>
        \A a \in Allocs :
            (undercount[a] >= 1 /\ overcount[a] = 0) =>
                /\ count[a] = Owners(a) - undercount[a]
                /\ count[a] < Owners(a)
                /\ Owners(a) >= 1
                /\ status[a] = "dead" => Owners(a) = undercount[a]

\* the handle's drop deallocated the object and the lender's release then
\* hit the deallocated object
C17_Witness ==
    /\ ub
    /\ last.op = "owner_release"
    /\ undercount[last.arg] = 1
    /\ status[last.arg] = "dead"
    /\ \E h \in Dropped : rc[h] = last.arg /\ origin[h] = "owned"

\* C18: as_rc on a fresh owned reference over-counts.  The over-counting
\* alone never leads to a release of a deallocated object, and as long as
\* none has happened the allocation keeps one unit per such acquisition
\* beyond its owners: it is never deallocated, and with every Rc dropped
\* and no owner left its count is still >= 1.
C18_SharedOnOwnedLeaks ==
    /\ (\A a \in Allocs : undercount[a] = 0) => ~ub
    /\ \A a \in Allocs :
          (~ub /\ overcount[a] >= 1 /\ undercount[a] = 0) =>
              /\ status[a] = "live"
              /\ count[a] = Owners(a) + overcount[a]
              /\ count[a] >= 1

\* every Rc on the allocation is dropped, nobody owns it, its count is 1
C18_Witness ==
    \E a \in Allocs :
        /\ overcount[a] = 1
        /\ undercount[a] = 0
        /\ Owners(a) = 0
        /\ Cardinality(EverOn(a)) >= 2
        /\ \A h \in EverOn(a) : hstate[h] = "dropped"
        /\ status[a] = "live"
        /\ count[a] = 1

\* C19: threads cloning and dropping their own Rc's of one allocation in any
\* interleaving: the count is the live Rc's plus the outside owners, every
\* live Rc is held by one thread and is on a live allocation, and the
\* allocation is deallocated only by the drop of the last Rc.
C19_ThreadsKeepCount ==
    /\ [](/\ ~ub
          /\ \A a \in Allocs : count[a] = Owners(a)
          /\ \A h \in Handles : (hstate[h] = "live") <=> (owner[h] # 0)
          /\ \A h \in LiveRcs : status[rc[h]] = "live" /\ count[rc[h]] >= 1)
    /\ [][\A a \in Allocs :
            (status[a] = "live" /\ status'[a] = "dead") =>
                /\ last'.op = "drop"
                /\ LiveOn(a) = {last'.arg}
                /\ count[a] = 1]_vars

\* both threads have cloned and dropped, one Rc is left, on a live
\* allocation, with the thread that did not make it
C19_Witness ==
    /\ Cardinality(LiveRcs) = 1
    /\ Cardinality(Dropped) >= 3
    /\ \E h \in LiveRcs :
          /\ origin[h] = "clone"
          /\ h \notin Thread
          /\ count[rc[h]] = 1 + ext[rc[h]]
    /\ \E g \in Dropped : g \notin Thread

====
